---------------------------- MODULE Spec2Model ----------------------------
(***************************************************************************)
(* gh-summary: the digest run of src/src/main.rs.                          *)
(*                                                                         *)
(* One run fetches a page of activity events, checks that the page reaches *)
(* back to the cutoff, folds the events into                               *)
(*   BTreeMap<Repo, BTreeMap<Topic, BTreeSet<Action>>>                     *)
(* and prints one line per repository after looking its metadata up.       *)
(*                                                                         *)
(* Strings that the program inspects (repo names, org names, titles) are   *)
(* sequences of one-character strings; Option<T> is a sequence of at most  *)
(* one element (<<>> is None, <<x>> is Some(x)).                           *)
(***************************************************************************)
EXTENDS Integers, Sequences, FiniteSets, TLC

VARIABLES
    args,                   \* Args: n_events, event_cutoff, include_orgs, exclude_orgs, username
    now,                    \* Utc::now() at start-up
    events,                 \* the fetched Vec<Event>
    meta,                   \* the metadata service: repo URL -> answer of GET
    pc,                     \* position of main
    idx,                    \* position of `for event in events` (1-based)
    interactions_by_repo,   \* the aggregation
    ri,                     \* position of `for (repo, topics) in interactions_by_repo`
    lookups,                \* GET requests for repository metadata issued so far
    out,                    \* lines written to standard output
    err                     \* the error main returned, if any

vars == <<args, now, events, meta, pc, idx, interactions_by_repo, ri, lookups, out, err>>

---------------------------------------------------------------------------
(* Bounds of the model. *)

MaxEvents == 3

MaxTitleLen == 3

---------------------------------------------------------------------------
(* Strings *)

\* The characters the model uses, in ascending order of their code point.
Ascii ==
    << "\t", "\n", " ", "!", "&", "(", ")", "+", "-", ".", "/",
       "0", "1", "2", "3", "4", "5", "6", "7", "8", "9", ":", ";", "<", ">",
       "A", "B", "C", "D", "E", "F", "G", "H", "I", "J", "K", "L", "M",
       "N", "O", "P", "Q", "R", "S", "T", "U", "V", "W", "X", "Y", "Z",
       "a", "b", "c", "d", "e", "f", "g", "h", "i", "j", "k", "l", "m",
       "n", "o", "p", "q", "r", "s", "t", "u", "v", "w", "x", "y", "z" >>

CodePoint(c) == CHOOSE i \in 1..Len(Ascii) : Ascii[i] = c

\* Ordering::Less = -1, Equal = 0, Greater = 1
IntCmp(a, b) == IF a < b THEN -1 ELSE IF a > b THEN 1 ELSE 0

\* <String as Ord>::cmp: lexicographic by code point, a proper prefix is less.
RECURSIVE StrCmpFrom(_, _, _)
StrCmpFrom(a, b, i) ==
    IF i > Len(a) /\ i > Len(b) THEN 0
    ELSE IF i > Len(a) THEN -1
    ELSE IF i > Len(b) THEN 1
    ELSE IF a[i] # b[i] THEN IntCmp(CodePoint(a[i]), CodePoint(b[i]))
    ELSE StrCmpFrom(a, b, i + 1)

StrCmp(a, b) == StrCmpFrom(a, b, 1)

\* str::starts_with
StartsWith(s, prefix) ==
    /\ Len(prefix) <= Len(s)
    /\ \A i \in 1..Len(prefix) : s[i] = prefix[i]

\* The org name alone, without the separator.
OrgPrefix_NoSlash(org) == org

\* format!("{org}/")
OrgPrefix(org) == org \o << "/" >>

---------------------------------------------------------------------------
(* Sanitizer: the two regular expressions and Display for Topic *)

\* The complement of UNSAFE_CHARS = [^0-9a-zA-Z /():;.&+-]
SafeChars ==
    { "0", "1", "2", "3", "4", "5", "6", "7", "8", "9",
      "a", "b", "c", "d", "e", "f", "g", "h", "i", "j", "k", "l", "m",
      "n", "o", "p", "q", "r", "s", "t", "u", "v", "w", "x", "y", "z",
      "A", "B", "C", "D", "E", "F", "G", "H", "I", "J", "K", "L", "M",
      "N", "O", "P", "Q", "R", "S", "T", "U", "V", "W", "X", "Y", "Z",
      " ", "/", "(", ")", ":", ";", ".", "&", "+", "-" }

\* The characters of Ascii that \s matches.
WhitespaceChars == { " ", "\t", "\n" }

\* UNSAFE_CHARS.replace_all(title, "")
RECURSIVE RemoveUnsafe(_)
RemoveUnsafe(s) ==
    IF s = << >> THEN << >>
    ELSE IF Head(s) \in SafeChars THEN << Head(s) >> \o RemoveUnsafe(Tail(s))
    ELSE RemoveUnsafe(Tail(s))

\* WHITESPACE.replace_all(title, " "): every maximal run matching \s+ becomes one space.
RECURSIVE CollapseWhitespace(_)
CollapseWhitespace(s) ==
    IF s = << >> THEN << >>
    ELSE IF Head(s) \in WhitespaceChars
         THEN IF Len(s) > 1 /\ s[2] \in WhitespaceChars
              THEN CollapseWhitespace(Tail(s))
              ELSE << " " >> \o CollapseWhitespace(Tail(s))
    ELSE << Head(s) >> \o CollapseWhitespace(Tail(s))

\* The title as Display for Topic writes it.
Sanitize(title) == CollapseWhitespace(RemoveUnsafe(title))

---------------------------------------------------------------------------
(* Keys of the aggregation *)

\* An order on both fields of Repo: two URLs of one name are two keys.
RepoCmp_WithUrl(a, b) ==
    IF StrCmp(a.name, b.name) # 0 THEN StrCmp(a.name, b.name)
    ELSE IF a.url = b.url THEN 0 ELSE 1

\* Ord for Repo: by name only.
RepoCmp(a, b) == StrCmp(a.name, b.name)

\* Ord for Topic: by number only.
TopicCmp(a, b) == IntCmp(a.number, b.number)

\* enum Action
Actions == { "Code", "Write", "Review", "Comment", "Assist" }

\* The variants in the order of their names.
ActionRank_Alphabetical(a) ==
    CASE a = "Assist" -> 0
      [] a = "Code" -> 1
      [] a = "Comment" -> 2
      [] a = "Review" -> 3
      [] a = "Write" -> 4

\* The derived Ord of Action: the variants in declaration order.
ActionRank(a) ==
    CASE a = "Code" -> 0
      [] a = "Write" -> 1
      [] a = "Review" -> 2
      [] a = "Comment" -> 3
      [] a = "Assist" -> 4


---------------------------------------------------------------------------
(* BTreeMap and BTreeSet.  A BTreeMap is the sequence of its entries       *)
(* [key, val] in ascending key order, which is its iteration order.        *)

InsertAt(seq, i, x) == SubSeq(seq, 1, i - 1) \o << x >> \o SubSeq(seq, i, Len(seq))

\* The position of the entry whose key compares Equal to repo, 0 if none.
RepoIndex(map, repo) ==
    IF \E i \in 1..Len(map) : RepoCmp(map[i].key, repo) = 0
    THEN CHOOSE i \in 1..Len(map) : RepoCmp(map[i].key, repo) = 0
    ELSE 0

\* .entry(repo).or_default(): an occupied entry keeps the key it has, a vacant
\* one is created at its place in key order with an empty map of topics.
RepoEntry(map, repo) ==
    IF RepoIndex(map, repo) # 0
    THEN map
    ELSE InsertAt(map,
                  Cardinality({ i \in 1..Len(map) : RepoCmp(map[i].key, repo) < 0 }) + 1,
                  [key |-> repo, val |-> << >>])

\* The position of the entry whose key compares Equal to topic, 0 if none.
TopicIndex(map, topic) ==
    IF \E j \in 1..Len(map) : TopicCmp(map[j].key, topic) = 0
    THEN CHOOSE j \in 1..Len(map) : TopicCmp(map[j].key, topic) = 0
    ELSE 0

\* An entry that takes the key of the latest sighting.
TopicEntry_Overwrite(map, topic) ==
    IF TopicIndex(map, topic) # 0
    THEN [map EXCEPT ![TopicIndex(map, topic)].key = topic]
    ELSE InsertAt(map,
                  Cardinality({ j \in 1..Len(map) : TopicCmp(map[j].key, topic) < 0 }) + 1,
                  [key |-> topic, val |-> {}])

\* .entry(topic).or_default(): as RepoEntry, with an empty set of actions.
TopicEntry(map, topic) ==
    IF TopicIndex(map, topic) # 0
    THEN map
    ELSE InsertAt(map,
                  Cardinality({ j \in 1..Len(map) : TopicCmp(map[j].key, topic) < 0 }) + 1,
                  [key |-> topic, val |-> {}])

\* An assignment in place of the insertion.
InsertAction_Replace(set, action) == { action }

\* BTreeSet::insert
InsertAction(set, action) == set \cup { action }

\* interactions_by_repo.entry(repo).or_default().entry(topic).or_default().insert(action)
FoldTriple(map, repo, topic, action) ==
    LET m1 == RepoEntry(map, repo)
        i  == RepoIndex(m1, repo)
        t1 == TopicEntry(m1[i].val, topic)
        j  == TopicIndex(t1, topic)
    IN  [m1 EXCEPT ![i].val = [t1 EXCEPT ![j].val = InsertAction(@, action)]]

\* BTreeSet<Action>::into_iter(): ascending by the derived Ord.
RECURSIVE ActionsInOrder(_)
ActionsInOrder(set) ==
    IF set = {} THEN << >>
    ELSE LET first == CHOOSE a \in set : \A b \in set : ActionRank(a) <= ActionRank(b)
         IN  << first >> \o ActionsInOrder(set \ { first })

---------------------------------------------------------------------------
(* The window check and the filters *)

\* let created_at = Utc::now() - args.event_cutoff
CreatedAt == now - args.event_cutoff

\* The comparison with <= in place of <.
WindowCovers_Inclusive(evs) == \E i \in 1..Len(evs) : evs[i].created_at <= CreatedAt

\* events.iter().any(|evt| evt.created_at < created_at)
WindowCovers(evs) == \E i \in 1..Len(evs) : evs[i].created_at < CreatedAt

\* A Vec of orgs is only ever asked `.iter().any(..)`: its order and repetitions
\* do not matter, the model keeps the set of its elements.
MatchesAnyOrg(orgs, name) == \E org \in orgs : StartsWith(name, OrgPrefix(org))

\* The four `continue`s at the head of the loop body.
PassesFilters(e) ==
    /\ e.public
    /\ ~ (args.include_orgs # << >> /\ ~ MatchesAnyOrg(args.include_orgs[1], e.repo_name))
    /\ ~ (args.exclude_orgs # << >> /\ MatchesAnyOrg(args.exclude_orgs[1], e.repo_name))
    /\ ~ (e.created_at < CreatedAt)

---------------------------------------------------------------------------
(* The classifier.  A payload is                                           *)
(*   [kind, action, user, comment_user, number, title, html_url]           *)
(* user: Option of the login of the issue's or pull request's author;      *)
(* comment_user: the login of the comment's author (issue comments);       *)
(* title, html_url: Options (always Some for an issue).                    *)

\* evt.issue.user.login == args.username
OwnIssue(p) == p.user = << args.username >>

\* evt.comment.user.login == args.username
OwnComment(p) == p.comment_user = args.username

\* The same with a pull request without author counted as one's own.
OwnPullRequest_NoAuthorIsOwn(p) == p.user = << >> \/ p.user = << args.username >>

\* pull_request.user.as_ref().map(|user| user.login == args.username).unwrap_or_default()
OwnPullRequest(p) == p.user # << >> /\ p.user[1] = args.username

\* match evt.action of IssuesEvent: Some(action), or None for `continue`
IssuesAction(p) ==
    CASE p.action = "opened" -> << "Write" >>
      [] p.action \in { "closed", "reopened", "assigned", "unassigned",
                        "labeled", "unlabeled" } -> << "Assist" >>
      [] p.action = "edited" -> IF OwnIssue(p) THEN << "Comment" >> ELSE << "Assist" >>
      [] OTHER -> << >>

\* match evt.action of IssueCommentEvent
IssueCommentAction(p) ==
    CASE p.action = "created" -> << "Comment" >>
      [] p.action = "edited" -> IF OwnComment(p) THEN << "Comment" >> ELSE << "Assist" >>
      [] p.action = "deleted" -> << "Assist" >>
      [] OTHER -> << >>

\* match evt.action of PullRequestEvent
PullRequestAction(p) ==
    CASE p.action = "opened" -> << "Code" >>
      [] p.action \in { "closed", "reopened", "assigned", "unassigned",
                        "review_requested", "review_request_removed",
                        "labeled", "unlabeled", "synchronize" } -> << "Assist" >>
      [] p.action = "edited" -> IF OwnPullRequest(p) THEN << "Comment" >> ELSE << "Assist" >>
      [] OTHER -> << >>

\* From<Issue> for Topic
TopicFromIssue(p) == [url |-> p.html_url[1], number |-> p.number, title |-> p.title[1]]

\* A conversion that puts an empty string for a missing field.
TopicTryFromPr_Lenient(p) ==
    [ok |-> TRUE,
     topic |-> [url |-> IF p.html_url = << >> THEN "" ELSE p.html_url[1],
                number |-> p.number,
                title |-> IF p.title = << >> THEN << >> ELSE p.title[1]],
     cause |-> ""]

\* TryFrom<PullRequest> for Topic
TopicTryFromPr(p) ==
    IF p.html_url = << >>
    THEN [ok |-> FALSE, topic |-> << >>, cause |-> "HTML URL missing"]
    ELSE IF p.title = << >>
    THEN [ok |-> FALSE, topic |-> << >>, cause |-> "PR title missing"]
    ELSE [ok |-> TRUE,
          topic |-> [url |-> p.html_url[1], number |-> p.number, title |-> p.title[1]],
          cause |-> ""]

Skip == [tag |-> "continue"]

Fail(context, cause) == [tag |-> "error", context |-> context, cause |-> cause]

Triple(repo, topic, action) ==
    [tag |-> "insert", repo |-> repo, topic |-> topic, action |-> action]

\* Topic::try_from(pull_request).context("convert PR data")?, then the triple
PrTriple(repo, p, action) ==
    IF TopicTryFromPr(p).ok
    THEN Triple(repo, TopicTryFromPr(p).topic, action)
    ELSE Fail("convert PR data", TopicTryFromPr(p).cause)

\* One pass of the loop body: `continue`, `?` or the triple to insert.
Classify(e) ==
    LET repo == [name |-> e.repo_name, url |-> e.repo_url]
        p    == e.payload
    IN  IF ~ PassesFilters(e) THEN Skip
        ELSE CASE p.kind = "IssuesEvent" ->
                    IF IssuesAction(p) = << >> THEN Skip
                    ELSE Triple(repo, TopicFromIssue(p), IssuesAction(p)[1])
               [] p.kind = "IssueCommentEvent" ->
                    IF IssueCommentAction(p) = << >> THEN Skip
                    ELSE Triple(repo, TopicFromIssue(p), IssueCommentAction(p)[1])
               [] p.kind = "PullRequestEvent" ->
                    IF PullRequestAction(p) = << >> THEN Skip
                    ELSE PrTriple(repo, p, PullRequestAction(p)[1])
               [] p.kind = "PullRequestReviewEvent" -> PrTriple(repo, p, "Review")
               [] p.kind = "PullRequestReviewCommentEvent" -> PrTriple(repo, p, "Review")
               [] OTHER -> Skip

---------------------------------------------------------------------------
(* The renderer *)

\* Display for Topic, with the actions printed before it:
\* {action}.. [#{number}]({url}) (_{title}_)
RenderTopic(entry) ==
    [actions |-> ActionsInOrder(entry.val),
     number  |-> entry.key.number,
     url     |-> entry.key.url,
     title   |-> Sanitize(entry.key.title)]

\* One line of the digest:
\* - *[{name}]({html_url}):* then the topics, separated by "," and an EN space
RenderLine(entry, html_url) ==
    [name     |-> entry.key.name,
     html_url |-> html_url,
     topics   |-> [j \in 1..Len(entry.val) |-> RenderTopic(entry.val[j])]]

---------------------------------------------------------------------------
(* main as a function of the fetched page: what a whole run writes to      *)
(* standard output.                                                        *)

\* `for event in events { .. }` from position i on; ok is FALSE when a `?` returned.
RECURSIVE FoldFrom(_, _, _)
FoldFrom(map, evs, i) ==
    IF i > Len(evs) THEN [ok |-> TRUE, map |-> map]
    ELSE LET r == Classify(evs[i])
         IN  CASE r.tag = "continue" -> FoldFrom(map, evs, i + 1)
               [] r.tag = "error" -> [ok |-> FALSE, map |-> map]
               [] r.tag = "insert" ->
                    FoldFrom(FoldTriple(map, r.repo, r.topic, r.action), evs, i + 1)

\* `for (repo, topics) in interactions_by_repo { .. }` from position i on.
RECURSIVE RenderFrom(_, _)
RenderFrom(map, i) ==
    IF i > Len(map) THEN << >>
    ELSE LET ans == meta[map[i].key.url]
         IN  IF ~ ans.ok \/ ans.html_url = << >> THEN << >>
             ELSE << RenderLine(map[i], ans.html_url[1]) >> \o RenderFrom(map, i + 1)

RunOutput(evs) ==
    IF ~ WindowCovers(evs) THEN << >>
    ELSE IF ~ FoldFrom(<< >>, evs, 1).ok THEN << >>
    ELSE RenderFrom(FoldFrom(<< >>, evs, 1).map, 1)

---------------------------------------------------------------------------
(* Inputs *)

Username == "me"

Logins == { "me", "you" }

\* "a/x", "ab/x", "b/x"
RepoAX == << "a", "/", "x" >>

RepoABX == << "a", "b", "/", "x" >>

RepoBX == << "b", "/", "x" >>

RepoNames == { RepoAX, RepoABX, RepoBX }

OrgA == << "a" >>

OrgAB == << "a", "b" >>

OrgB == << "b" >>

\* --include-orgs / --exclude-orgs: absent, or a list of at least one org
OrgLists == { << >>, << { OrgA } >>, << { OrgB } >>, << { OrgA, OrgAB } >> }

Title1 == << "f", "i", "x" >>

Title2 == << "F", "i", "x", "!", " ", " ", "2" >>

\* The answers of GET {repo.url}: a transport error, a repository without
\* html_url, a repository with one.
MetaAnswers ==
    { [ok |-> FALSE, html_url |-> << >>],
      [ok |-> TRUE, html_url |-> << >>],
      [ok |-> TRUE, html_url |-> << "https://github.com/repo" >>] }

Event(public, name, url, created_at, payload) ==
    [public |-> public, repo_name |-> name, repo_url |-> url,
     created_at |-> created_at, payload |-> payload]

Payload(kind, action, user, comment_user, number, title, html_url) ==
    [kind |-> kind, action |-> action, user |-> user, comment_user |-> comment_user,
     number |-> number, title |-> title, html_url |-> html_url]

\* event.payload is None, or payload.specific is None
NoPayload == Payload("None", "", << >>, "", 0, << >>, << >>)

\* "other" stands for any action value the matches do not name.
IssuesPayloads ==
    { Payload("IssuesEvent", a, << u >>, "", 1, << Title1 >>, << "h1" >>) :
        a \in { "opened", "closed", "reopened", "assigned", "unassigned",
                "labeled", "unlabeled", "edited", "other" },
        u \in Logins }

IssueCommentPayloads ==
    { Payload("IssueCommentEvent", a, << u >>, c, 1, << Title1 >>, << "h1" >>) :
        a \in { "created", "edited", "deleted", "other" }, u \in Logins, c \in Logins }

\* The three shapes of a pull request: complete, without html_url, without title.
PrShapes ==
    { [title |-> << Title1 >>, html_url |-> << "h1" >>],
      [title |-> << Title1 >>, html_url |-> << >>],
      [title |-> << >>, html_url |-> << "h1" >>] }

PullRequestPayloads ==
    { Payload("PullRequestEvent", a, u, "", 1, s.title, s.html_url) :
        a \in { "opened", "closed", "reopened", "assigned", "unassigned",
                "review_requested", "review_request_removed", "labeled",
                "unlabeled", "synchronize", "edited", "other" },
        u \in { << >>, << "me" >>, << "you" >> },
        s \in PrShapes }

ReviewPayloads ==
    { Payload(k, a, << "you" >>, "", 1, s.title, s.html_url) :
        k \in { "PullRequestReviewEvent", "PullRequestReviewCommentEvent" },
        a \in { "created", "other" },
        s \in PrShapes }

\* A payload kind the match does not name (a push, a fork, ..)
OtherPayloads == { Payload("PushEvent", "", << >>, "", 0, << >>, << >>) }

AllPayloads ==
    IssuesPayloads \cup IssueCommentPayloads \cup PullRequestPayloads
        \cup ReviewPayloads \cup OtherPayloads \cup { NoPayload }

IssueOpened(number, title, html_url) ==
    Payload("IssuesEvent", "opened", << "me" >>, "", number, << title >>, << html_url >>)

\* Creation times: 1, 2, 3; the run starts at 3 (see Start).
OldPrivate == Event(FALSE, RepoBX, "u2", 1, IssueOpened(1, Title1, "h1"))

NewIssue == Event(TRUE, RepoBX, "u2", 3, IssueOpened(2, Title2, "h2"))

\* The page of the classifier runs: one event of any payload, public or not,
\* newer than the cutoff, then an old event that makes the window check pass.
ClassifyPages ==
    { << Event(pub, RepoAX, "u1", 3, p) >> \o tail :
        pub \in BOOLEAN, p \in AllPayloads,
        tail \in { << OldPrivate >>, << OldPrivate, NewIssue >> } }

\* The page of the filter runs: one event of any visibility, repository and
\* creation time, alone or followed by an old private event, a new event or both.
FilterPayloads ==
    { IssueOpened(1, Title1, "h1"),
      Payload("PullRequestEvent", "opened", << "me" >>, "", 1, << >>, << "h1" >>) }

FilterPages ==
    { << Event(pub, name, "u1", t, p) >> \o tail :
        pub \in BOOLEAN, name \in RepoNames, t \in 1..3, p \in FilterPayloads,
        tail \in { << >>, << OldPrivate >>, << NewIssue >>, << OldPrivate, NewIssue >> } }

\* The events of the aggregation runs.
FoldEvents ==
    { Event(TRUE, RepoAX, "u1", 3,
            Payload("PullRequestEvent", "opened", << "me" >>, "", 1,
                    << Title1 >>, << "h1" >>)),
      Event(TRUE, RepoAX, "u2", 3,
            Payload("PullRequestReviewEvent", "created", << "you" >>, "", 1,
                    << Title2 >>, << "h2" >>)),
      Event(TRUE, RepoAX, "u1", 3,
            Payload("IssueCommentEvent", "created", << "me" >>, "me", 1,
                    << Title1 >>, << "h1" >>)),
      Event(TRUE, RepoAX, "u1", 3, IssueOpened(2, Title2, "h2")),
      Event(TRUE, RepoBX, "u2", 3,
            Payload("PullRequestEvent", "opened", << "me" >>, "", 1,
                    << Title2 >>, << "h2" >>)),
      Event(TRUE, RepoBX, "u2", 3,
            Payload("PullRequestEvent", "opened", << "me" >>, "", 1,
                    << >>, << "h2" >>)),
      Event(TRUE, RepoAX, "u1", 1, IssueOpened(1, Title1, "h1")),
      OldPrivate }

\* Vec<Event> of at most n events drawn from pool
RECURSIVE PagesUpTo(_, _)
PagesUpTo(pool, n) ==
    IF n = 0 THEN { << >> }
    ELSE PagesUpTo(pool, n - 1)
            \cup { Append(s, e) : s \in { q \in PagesUpTo(pool, n - 1) : Len(q) = n - 1 },
                                  e \in pool }

TitleChars == { "a", "-", " ", "\t", "\n", "!" }

RECURSIVE TitlesUpTo(_)
TitlesUpTo(n) ==
    IF n = 0 THEN { << >> }
    ELSE TitlesUpTo(n - 1)
            \cup { Append(s, c) : s \in { q \in TitlesUpTo(n - 1) : Len(q) = n - 1 },
                                  c \in TitleChars }

\* The page of the title runs: one issue with any title, then an old event.
TitlePages ==
    { << Event(TRUE, RepoAX, "u1", 3, IssueOpened(1, t, "h1")), OldPrivate >> :
        t \in TitlesUpTo(MaxTitleLen) }

UrlsOf(evs) == { evs[i].repo_url : i \in 1..Len(evs) }

---------------------------------------------------------------------------
(* The run *)

\* The state after Args::parse() and the fetch of `page`.
Start(page, include_orgs, exclude_orgs, event_cutoff) ==
    /\ args = [n_events |-> MaxEvents, event_cutoff |-> event_cutoff,
               include_orgs |-> include_orgs, exclude_orgs |-> exclude_orgs,
               username |-> Username]
    /\ now = 3
    /\ events = page
    /\ meta \in [UrlsOf(page) -> MetaAnswers]
    /\ pc = "window"
    /\ idx = 1
    /\ interactions_by_repo = << >>
    /\ ri = 1
    /\ lookups = << >>
    /\ out = << >>
    /\ err = << >>

Init ==
    \E page \in PagesUpTo(FoldEvents, MaxEvents) : Start(page, << >>, << >>, 1)

InitClassify ==
    \E page \in ClassifyPages : Start(page, << >>, << >>, 1)

InitFilter ==
    \E page \in FilterPages, inc \in OrgLists, exc \in OrgLists, cutoff \in 1..2 :
        Start(page, inc, exc, cutoff)

InitTitles ==
    \E page \in TitlePages : Start(page, << >>, << >>, 1)

\* if !events.iter().any(..) { bail!(..) }
WindowCheck ==
    /\ pc = "window"
    /\ IF WindowCovers(events)
       THEN /\ pc' = "classify"
            /\ err' = err
       ELSE /\ pc' = "failed"
            /\ err' = << [cause |-> "number of events to low for give time period",
                          n_events |-> args.n_events,
                          event_cutoff |-> args.event_cutoff] >>
    /\ UNCHANGED << args, now, events, meta, idx, interactions_by_repo, ri, lookups, out >>

\* One pass of `for event in events`.
ProcessEvent ==
    /\ pc = "classify"
    /\ idx <= Len(events)
    /\ LET r == Classify(events[idx])
       IN  CASE r.tag = "continue" ->
                    /\ idx' = idx + 1
                    /\ UNCHANGED << pc, interactions_by_repo, err >>
             [] r.tag = "error" ->
                    /\ pc' = "failed"
                    /\ err' = << [cause |-> r.cause, context |-> r.context] >>
                    /\ UNCHANGED << idx, interactions_by_repo >>
             [] r.tag = "insert" ->
                    /\ interactions_by_repo' =
                          FoldTriple(interactions_by_repo, r.repo, r.topic, r.action)
                    /\ idx' = idx + 1
                    /\ UNCHANGED << pc, err >>
    /\ UNCHANGED << args, now, events, meta, ri, lookups, out >>

\* The loop over the events ends; the loop over the repositories begins.
EndOfEvents ==
    /\ pc = "classify"
    /\ idx > Len(events)
    /\ pc' = "render"
    /\ UNCHANGED << args, now, events, meta, idx, interactions_by_repo, ri, lookups, out, err >>

\* octocrab::instance().get(&repo.url, ..) is sent; main awaits the answer.
RequestRepo ==
    /\ pc = "render"
    /\ ri <= Len(interactions_by_repo)
    /\ lookups' = Append(lookups, interactions_by_repo[ri].key.url)
    /\ pc' = "lookup"
    /\ UNCHANGED << args, now, events, meta, idx, interactions_by_repo, ri, out, err >>

\* The answer arrives: `?` on a failed request or a missing html_url,
\* else the repository's line is printed.
ReceiveRepo ==
    /\ pc = "lookup"
    /\ LET entry == interactions_by_repo[ri]
           ans   == meta[entry.key.url]
       IN  IF ~ ans.ok
           THEN /\ pc' = "failed"
                /\ err' = << [cause |-> "request failed", context |-> "get repo"] >>
                /\ UNCHANGED << ri, out >>
           ELSE IF ans.html_url = << >>
           THEN /\ pc' = "failed"
                /\ err' = << [cause |-> "no html URL for repo", context |-> ""] >>
                /\ UNCHANGED << ri, out >>
           ELSE /\ out' = Append(out, RenderLine(entry, ans.html_url[1]))
                /\ ri' = ri + 1
                /\ pc' = "render"
                /\ err' = err
    /\ UNCHANGED << args, now, events, meta, idx, interactions_by_repo, lookups >>

\* Ok(())
Finish ==
    /\ pc = "render"
    /\ ri > Len(interactions_by_repo)
    /\ pc' = "done"
    /\ UNCHANGED << args, now, events, meta, idx, interactions_by_repo, ri, lookups, out, err >>

Next ==
    \/ WindowCheck
    \/ ProcessEvent
    \/ EndOfEvents
    \/ RequestRepo
    \/ ReceiveRepo
    \/ Finish

Spec == Init /\ [][Next]_vars

SpecClassify == InitClassify /\ [][Next]_vars

SpecFilter == InitFilter /\ [][Next]_vars

SpecTitles == InitTitles /\ [][Next]_vars

---------------------------------------------------------------------------
(* Properties *)

\* The (repo name, topic number, kind) triples an aggregation holds.
Triples(map) ==
    UNION { UNION { { << map[i].key.name, map[i].val[j].key.number, k >> :
                        k \in map[i].val[j].val } :
                    j \in 1..Len(map[i].val) } :
            i \in 1..Len(map) }

\* The cutoff, public and org conditions as the specification words them.
Accepted(e) ==
    /\ e.public
    /\ args.include_orgs # << >> =>
          \E org \in args.include_orgs[1] : StartsWith(e.repo_name, org \o << "/" >>)
    /\ args.exclude_orgs # << >> =>
          ~ \E org \in args.exclude_orgs[1] : StartsWith(e.repo_name, org \o << "/" >>)
    /\ e.created_at >= now - args.event_cutoff

\* The table of the specification: the kind of a payload, "none" when the
\* event contributes nothing.
TableKind(p) ==
    CASE p.kind = "IssuesEvent" /\ p.action = "opened" -> "Write"
      [] p.kind = "IssuesEvent"
            /\ p.action \in { "closed", "reopened", "assigned", "unassigned",
                              "labeled", "unlabeled" } -> "Assist"
      [] p.kind = "IssuesEvent" /\ p.action = "edited" ->
            IF p.user = << args.username >> THEN "Comment" ELSE "Assist"
      [] p.kind = "IssueCommentEvent" /\ p.action = "created" -> "Comment"
      [] p.kind = "IssueCommentEvent" /\ p.action = "edited" ->
            IF p.comment_user = args.username THEN "Comment" ELSE "Assist"
      [] p.kind = "IssueCommentEvent" /\ p.action = "deleted" -> "Assist"
      [] p.kind = "PullRequestEvent" /\ p.action = "opened" -> "Code"
      [] p.kind = "PullRequestEvent"
            /\ p.action \in { "closed", "reopened", "assigned", "unassigned",
                              "review_requested", "review_request_removed",
                              "labeled", "unlabeled", "synchronize" } -> "Assist"
      [] p.kind = "PullRequestEvent" /\ p.action = "edited" ->
            IF p.user = << args.username >> THEN "Comment" ELSE "Assist"
      [] p.kind \in { "PullRequestReviewEvent", "PullRequestReviewCommentEvent" } -> "Review"
      [] OTHER -> "none"

PrDerived(p) ==
    p.kind \in { "PullRequestEvent", "PullRequestReviewEvent",
                 "PullRequestReviewCommentEvent" }

MalformedPr(p) == PrDerived(p) /\ (p.html_url = << >> \/ p.title = << >>)

\* C1: every event that passes the filters is classified as the table says:
\* a step over an event whose table kind is "none" changes neither the
\* aggregation nor the error, and a step over any other event (with a
\* complete pull request, where it carries one) adds exactly the triple
\* (repo name, number, table kind) to the aggregation and raises no error.
C1_ClassifierFollowsTable ==
    [][ (pc = "classify" /\ idx <= Len(events) /\ Accepted(events[idx])) =>
          LET e == events[idx]
              k == TableKind(e.payload)
          IN  /\ k = "none" =>
                    /\ interactions_by_repo' = interactions_by_repo
                    /\ pc' = "classify"
                    /\ err' = << >>
              /\ (k # "none" /\ ~ MalformedPr(e.payload)) =>
                    /\ Triples(interactions_by_repo') =
                          Triples(interactions_by_repo)
                             \cup { << e.repo_name, e.payload.number, k >> }
                    /\ pc' = "classify"
                    /\ err' = << >>
      ]_vars

\* C1 witness: an edited pull request that carries no author was folded as Assist.
C1_Witness ==
    /\ pc = "done"
    /\ events[1].public
    /\ events[1].payload.kind = "PullRequestEvent"
    /\ events[1].payload.action = "edited"
    /\ events[1].payload.user = << >>
    /\ << RepoAX, 1, "Assist" >> \in Triples(interactions_by_repo)

\* C2: every repo, topic and kind of the aggregation comes from an event
\* already visited that is public, matches the include list (when there is
\* one), matches no org of the exclude list (when there is one) and is not
\* older than the cutoff.
C2_OnlyAcceptedEventsContribute ==
    LET from == { i \in 1..(idx - 1) : Accepted(events[i]) }
    IN  /\ \A r \in 1..Len(interactions_by_repo) :
              \E i \in from : events[i].repo_name = interactions_by_repo[r].key.name
        /\ \A r \in 1..Len(interactions_by_repo) :
              \A t \in 1..Len(interactions_by_repo[r].val) :
                 \E i \in from :
                    /\ events[i].repo_name = interactions_by_repo[r].key.name
                    /\ events[i].payload.number = interactions_by_repo[r].val[t].key.number
        /\ \A x \in Triples(interactions_by_repo) :
              \E i \in from :
                 x = << events[i].repo_name, events[i].payload.number,
                        TableKind(events[i].payload) >>

\* C2 witness: with both lists configured, an event of an included and not
\* excluded org was folded.
C2_Witness ==
    /\ pc = "done"
    /\ args.include_orgs = << { OrgA, OrgAB } >>
    /\ args.exclude_orgs = << { OrgA } >>
    /\ Len(interactions_by_repo) = 1
    /\ interactions_by_repo[1].key.name = RepoABX

WindowError ==
    << [cause |-> "number of events to low for give time period",
        n_events |-> args.n_events,
        event_cutoff |-> args.event_cutoff] >>

\* C3: the window check comes before any classification; when no fetched
\* event is strictly older than the cutoff the run has failed with the window
\* error, which carries the event count and the duration, and nothing was
\* aggregated, looked up or written; when some fetched event is strictly
\* older, the run never fails with that error.
C3_WindowCheck ==
    LET older == \E i \in 1..Len(events) : events[i].created_at < now - args.event_cutoff
    IN  /\ pc = "window" =>
              idx = 1 /\ interactions_by_repo = << >> /\ out = << >> /\ err = << >>
        /\ (pc # "window" /\ ~ older) =>
              /\ pc = "failed"
              /\ err = WindowError
              /\ idx = 1
              /\ interactions_by_repo = << >>
              /\ lookups = << >>
              /\ out = << >>
        /\ (pc # "window" /\ older) => err # WindowError

\* C3 witness: a page with an event created exactly at the cutoff, and none
\* earlier, failed the check.
C3_Witness ==
    /\ pc = "failed"
    /\ err = WindowError
    /\ \E i \in 1..Len(events) : events[i].created_at = now - args.event_cutoff

\* The events visited so far that were folded into the aggregation.
Folded == { i \in 1..(idx - 1) : Classify(events[i]).tag = "insert" }

\* C4: the aggregation has one entry per distinct repo name of the folded
\* events and, under it, one topic per distinct number, whose kind set is
\* exactly the set of kinds of the folded events of that (repo name, number).
C4_OneEntryPerKey ==
    LET m == interactions_by_repo
    IN  /\ \A a, b \in 1..Len(m) : m[a].key.name = m[b].key.name => a = b
        /\ { m[a].key.name : a \in 1..Len(m) } = { events[i].repo_name : i \in Folded }
        /\ \A a \in 1..Len(m) :
              LET ts   == m[a].val
                  here == { i \in Folded : events[i].repo_name = m[a].key.name }
              IN  /\ \A x, y \in 1..Len(ts) : ts[x].key.number = ts[y].key.number => x = y
                  /\ { ts[x].key.number : x \in 1..Len(ts) }
                        = { events[i].payload.number : i \in here }
                  /\ \A x \in 1..Len(ts) :
                        ts[x].val =
                           { Classify(events[i]).action :
                               i \in { h \in here :
                                         events[h].payload.number = ts[x].key.number } }

\* C4 witness: a pull request opened and reviewed, under two repo URLs of the
\* same repo name, is one repo entry with one topic of kinds {Code, Review}.
C4_Witness ==
    /\ Len(interactions_by_repo) = 1
    /\ Len(interactions_by_repo[1].val) = 1
    /\ interactions_by_repo[1].val[1].val = { "Code", "Review" }
    /\ \E i, j \in Folded : events[i].repo_url # events[j].repo_url

\* C5: a run that ended with an error has written nothing to standard output.
C5_NoPartialDigest == pc = "failed" => out = << >>

HandledPrActions ==
    { "opened", "closed", "reopened", "assigned", "unassigned", "review_requested",
      "review_request_removed", "labeled", "unlabeled", "synchronize", "edited" }

\* C6, as claimed: no pull-request, review or review-comment event whose pull
\* request lacks its URL or title is ever passed over; each aborts the run.
C6_EveryMalformedPrAborts ==
    \A i \in 1..(idx - 1) : ~ MalformedPr(events[i].payload)

\* C6, amended: such an event is passed over only when a filter drops it or
\* when it is a pull-request event with an action the classifier does not
\* handle; otherwise the run fails on it with the conversion error, nothing
\* of a later event is folded and nothing is looked up or written.
C6_AcceptedMalformedPrAborts ==
    /\ \A i \in 1..(idx - 1) :
          MalformedPr(events[i].payload) =>
             \/ ~ Accepted(events[i])
             \/ /\ events[i].payload.kind = "PullRequestEvent"
                /\ events[i].payload.action \notin HandledPrActions
    /\ (pc = "failed" /\ err # WindowError /\ lookups = << >>) =>
          /\ idx <= Len(events)
          /\ Accepted(events[idx])
          /\ MalformedPr(events[idx].payload)
          /\ err[1].context = "convert PR data"
          /\ err[1].cause =
                IF events[idx].payload.html_url = << >>
                THEN "HTML URL missing" ELSE "PR title missing"
          /\ \A x \in Triples(interactions_by_repo) :
                \E i \in 1..(idx - 1) : x[1] = events[i].repo_name
                                          /\ x[2] = events[i].payload.number
          /\ out = << >>

\* C6 witness: the run failed on a first event without title while a later
\* event that would have been folded is still unvisited.
C6_Witness ==
    /\ pc = "failed"
    /\ idx = 1
    /\ err # << >>
    /\ err[1].cause = "PR title missing"
    /\ Len(events) = 3
    /\ interactions_by_repo = << >>

Priority == << "Code", "Write", "Review", "Comment", "Assist" >>

PriorityOf(a) == CHOOSE n \in 1..Len(Priority) : Priority[n] = a

\* C7: repositories are visited in ascending name order, one lookup each, in
\* that order and never more than one unanswered; every printed line lists
\* the repository's topics in ascending number order and each topic's kinds
\* in the order Code, Write, Review, Comment, Assist.
C7_RenderOrder ==
    LET m == interactions_by_repo
    IN  /\ \A a, b \in 1..Len(m) : a < b => StrCmp(m[a].key.name, m[b].key.name) < 0
        /\ Len(lookups) <= Len(m)
        /\ \A a \in 1..Len(lookups) : lookups[a] = m[a].key.url
        /\ Len(out) <= Len(lookups)
        /\ Len(lookups) <= Len(out) + 1
        /\ pc \in { "render", "done" } => Len(lookups) = Len(out)
        /\ pc = "done" => Len(lookups) = Len(m)
        /\ \A a \in 1..Len(out) :
              /\ out[a].name = m[a].key.name
              /\ Len(out[a].topics) = Len(m[a].val)
              /\ \A x, y \in 1..Len(out[a].topics) :
                    x < y => out[a].topics[x].number < out[a].topics[y].number
              /\ \A x \in 1..Len(out[a].topics) :
                    LET acts == out[a].topics[x].actions
                    IN  /\ out[a].topics[x].number = m[a].val[x].key.number
                        /\ { acts[n] : n \in 1..Len(acts) } = m[a].val[x].val
                        /\ \A n, k \in 1..Len(acts) :
                              n < k => PriorityOf(acts[n]) < PriorityOf(acts[k])

\* C7 witness: two repositories whose events arrived in descending name
\* order were looked up and printed.
C7_Witness ==
    /\ pc = "done"
    /\ Len(out) = 2
    /\ \E i, j \in Folded : i < j /\ StrCmp(events[i].repo_name, events[j].repo_name) > 0

\* C8: a repo entry keeps the URL of the first folded event of its name, and
\* a topic keeps the URL and title of the first folded event of its
\* (repo name, number).
C8_FirstSeenWins ==
    LET m == interactions_by_repo
        First(S) == CHOOSE i \in S : \A k \in S : i <= k
    IN  \A a \in 1..Len(m) :
           LET here == { i \in Folded : events[i].repo_name = m[a].key.name }
           IN  /\ here # {}
               /\ m[a].key.url = events[First(here)].repo_url
               /\ \A x \in 1..Len(m[a].val) :
                     LET same == { i \in here :
                                     events[i].payload.number = m[a].val[x].key.number }
                     IN  /\ same # {}
                         /\ m[a].val[x].key.url = events[First(same)].payload.html_url[1]
                         /\ m[a].val[x].key.title = events[First(same)].payload.title[1]

\* C8 witness: two events of one topic with different titles were folded.
C8_Witness ==
    \E i, j \in Folded :
       /\ i < j
       /\ events[i].repo_name = events[j].repo_name
       /\ events[i].payload.number = events[j].payload.number
       /\ events[i].payload.title # events[j].payload.title
       /\ events[i].repo_url # events[j].repo_url

\* The pages that hold the same events in another order.
Reorderings(evs) ==
    { [i \in 1..Len(evs) |-> evs[f[i]]] : f \in Permutations(1..Len(evs)) }

Ended == pc \in { "done", "failed" }

\* C9, as claimed: a run over any reordering of the fetched page writes the
\* same output as this run did.
C9_OutputIgnoresEventOrder ==
    Ended => \A p \in Reorderings(events) : RunOutput(p) = out

\* The folded events of one repo name agree on the repo URL, and those of one
\* (repo name, number) agree on the topic's URL and title.
SightingsAgree ==
    \A i, j \in { k \in 1..Len(events) : Classify(events[k]).tag = "insert" } :
       events[i].repo_name = events[j].repo_name =>
          /\ events[i].repo_url = events[j].repo_url
          /\ events[i].payload.number = events[j].payload.number =>
                /\ events[i].payload.title = events[j].payload.title
                /\ events[i].payload.html_url = events[j].payload.html_url

\* C9, amended: when the sightings agree, a run over any reordering of the
\* fetched page writes the same output as this run did.
C9_OutputIgnoresOrderOfAgreeingEvents ==
    (Ended /\ SightingsAgree) => \A p \in Reorderings(events) : RunOutput(p) = out

\* C9 witness: a finished run over agreeing events of one topic with two
\* kinds that printed its line.
C9_Witness ==
    /\ pc = "done"
    /\ SightingsAgree
    /\ Len(out) = 1
    /\ Len(out[1].topics[1].actions) = 2

\* What the specification asks of the displayed title: every run of
\* whitespace shows as one space, every other character outside the permitted
\* set is removed, and no two spaces are adjacent.
RECURSIVE BlankWhitespace(_)
BlankWhitespace(s) ==
    IF s = << >> THEN << >>
    ELSE << IF Head(s) \in WhitespaceChars THEN " " ELSE Head(s) >>
            \o BlankWhitespace(Tail(s))

RECURSIVE KeepPermitted(_)
KeepPermitted(s) ==
    IF s = << >> THEN << >>
    ELSE IF Head(s) \in SafeChars THEN << Head(s) >> \o KeepPermitted(Tail(s))
    ELSE KeepPermitted(Tail(s))

RECURSIVE SingleSpaces(_)
SingleSpaces(s) ==
    IF Len(s) < 2 THEN s
    ELSE IF s[1] = " " /\ s[2] = " " THEN SingleSpaces(Tail(s))
    ELSE << Head(s) >> \o SingleSpaces(Tail(s))

DisplayedAsSpecified(title) == SingleSpaces(KeepPermitted(BlankWhitespace(title)))

FixBugScript ==
    << "F", "i", "x", " ", "b", "u", "g", "!", "!", " ", "<", "s", "c", "r", "i", "p", "t", ">" >>

\* C10: every printed title is the stored title with the characters outside
\* the permitted set removed and every run of whitespace (spaces, tabs,
\* newlines) shown as one space; it holds only permitted characters and no
\* two adjacent spaces, sanitizing it again changes nothing, and the topic
\* in the aggregation keeps the title as fetched.
C10_SanitizerContract ==
    /\ Sanitize(FixBugScript)
          = << "F", "i", "x", " ", "b", "u", "g", " ", "s", "c", "r", "i", "p", "t" >>
    /\ \A a \in 1..Len(out) :
          \A x \in 1..Len(out[a].topics) :
             LET stored == interactions_by_repo[a].val[x].key.title
                 shown  == out[a].topics[x].title
             IN  /\ \E i \in Folded : events[i].payload.title = << stored >>
                 /\ \A n \in 1..Len(shown) : shown[n] \in SafeChars
                 /\ \A n \in 1..(Len(shown) - 1) : ~ (shown[n] = " " /\ shown[n + 1] = " ")
                 /\ Sanitize(shown) = shown
                 /\ shown = DisplayedAsSpecified(stored)

=============================================================================
